---- MODULE Spec2Model ----
(***************************************************************************)
(* The line-delimited JSON-RPC server of youtube_transcript_server.py:     *)
(* YouTubeTranscriptServer.run reads standard input line by line and hands *)
(* every stripped line to handle_message, which parses it, dispatches on   *)
(* its method and prints at most one response.  The transcript provider    *)
(* (YouTubeTranscriptApi.get_transcript) is an external collaborator: the  *)
(* server blocks in it until it returns a transcript or raises.            *)
(*                                                                         *)
(* Text is a sequence of tokens.  A string literal of the source is one    *)
(* token (and a client string equal to it is that same token); any other   *)
(* client or provider text is spelled character by character.  Python      *)
(* dicts built by the server are records: DOMAIN is the set of their keys. *)
(***************************************************************************)
EXTENDS Integers, Sequences, FiniteSets, TLC

\* Bounds of the model.
MaxLines == 2       \* input lines read in one run
MaxEntries == 2     \* caption entries in one transcript

-----------------------------------------------------------------------------
(* JSON values as the client sends them.  t is the JSON type ("absent":    *)
(* the key is not in the enclosing object), v the text of a scalar.        *)

Absent == [t |-> "absent", v |-> <<>>]
Null == [t |-> "null", v |-> <<>>]
Str(s) == [t |-> "string", v |-> s]
Num(s) == [t |-> "number", v |-> s]
Arr == [t |-> "array", v |-> <<"[", "]">>]

\* dict.get(key): None for a missing key.
PyGet(val) == IF val.t = "absent" THEN Null ELSE val

\* str(x) inside an f-string: a str is itself, None is 'None', a number
\* its digits.
PyStr(val) == IF val.t = "null" THEN <<"None">> ELSE val.v

\* hash(x): lists and dicts are unhashable.
Hashable(val) == val.t \notin {"array", "object"}

\* The languages argument: a JSON array of language codes, null, or absent.
NoLangs == [t |-> "absent", items |-> <<>>]
NullLangs == [t |-> "null", items |-> <<>>]
LangList(s) == [t |-> "array", items |-> s]

\* The arguments of a tools/call: an object with video_id and languages,
\* or something that is no object.
NoArgs == [t |-> "absent", video_id |-> Absent, languages |-> NoLangs]
NullArgs == [t |-> "null", video_id |-> Absent, languages |-> NoLangs]
ArrArgs == [t |-> "array", video_id |-> Absent, languages |-> NoLangs]
ArgsObj(vid, langs) == [t |-> "object", video_id |-> vid, languages |-> langs]

\* The params of a request.
ParamsOf(ty, name, pv, args) ==
    [t |-> ty, name |-> name, protocolVersion |-> pv, arguments |-> args]
NoParams == ParamsOf("absent", Absent, Absent, NoArgs)
NullParams == ParamsOf("null", Absent, Absent, NoArgs)
ArrParams == ParamsOf("array", Absent, Absent, NoArgs)
EmptyDict == ParamsOf("object", Absent, Absent, NoArgs)
ParamsObj(name, pv, args) == ParamsOf("object", name, pv, args)

\* request.get('params', {}): the empty dict for a missing key.
PyGetParams(p) == IF p.t = "absent" THEN EmptyDict ELSE p

\* args = params.get('arguments', {})
PyGetArgs(a) == IF a.t = "absent" THEN ArgsObj(Absent, NoLangs) ELSE a

-----------------------------------------------------------------------------
(* Input lines.  text says what the characters of the line are: "empty",   *)
(* "spaces" (whitespace only), "malformed" (no JSON text) or "json"; for a *)
(* JSON text, top is the type of the value and method, id, params are the  *)
(* members of a top-level object.                                          *)

LineOf(text, top, method, id, params) ==
    [text |-> text, top |-> top, method |-> method, id |-> id, params |-> params]
RawLine(text) == LineOf(text, "none", Absent, Absent, NoParams)
NonObject(top) == LineOf("json", top, Absent, Absent, NoParams)
Request(method, id, params) == LineOf("json", "object", method, id, params)

\* line.strip()
Strip(line) == IF line.text = "spaces" THEN RawLine("empty") ELSE line

-----------------------------------------------------------------------------
(* What a handler does: it returns a value, raises, or (handle_call_tool   *)
(* only) blocks in a call of the transcript provider.                      *)

None == [none |-> TRUE]
IsNone(value) == DOMAIN value = {"none"}

Return(value) == [st |-> "return", value |-> value, msg |-> <<>>, call |-> <<>>]
Raise(msg) == [st |-> "raise", value |-> None, msg |-> msg, call |-> <<>>]
Call(c) == [st |-> "call", value |-> None, msg |-> <<>>, call |-> <<c>>]

\* Messages of the exceptions the Python runtime raises, by the type of the
\* value that was misused.
PyType(ty) ==
    CASE ty = "null" -> "NoneType"
      [] ty = "array" -> "list"
      [] ty = "string" -> "str"
      [] ty = "number" -> "int"
      [] OTHER -> "dict"
NoAttributeGet(ty) == <<"'", PyType(ty), "' object has no attribute 'get'">>
BadSubscript(ty) ==
    IF ty = "array"
    THEN <<"list indices must be integers or slices, not str">>
    ELSE <<"'", PyType(ty), "' object is not subscriptable">>
KeyErrorVideoId == <<"'video_id'">>
Unhashable(ty) == <<"unhashable type: '", PyType(ty), "'">>

DefaultProtocolVersion == Str(<<"0.1.0">>)

\* handle_initialize as it would be if it ignored the client's version.
handle_initialize_fixed(params) ==
    IF params.t # "object"
    THEN Raise(NoAttributeGet(params.t))
    ELSE Return([protocolVersion |-> DefaultProtocolVersion,
                 serverInfo |-> [name |-> "youtube-transcript-server",
                                 version |-> "0.1.0"],
                 capabilities |-> [tools |-> [available |-> TRUE],
                                   resources |-> [available |-> FALSE],
                                   resourceTemplates |-> [available |-> FALSE]]])

handle_initialize(params) ==
    IF params.t # "object"
    THEN Raise(NoAttributeGet(params.t))
    ELSE Return([protocolVersion |->
                     IF params.protocolVersion.t = "absent"
                     THEN DefaultProtocolVersion
                     ELSE params.protocolVersion,
                 serverInfo |-> [name |-> "youtube-transcript-server",
                                 version |-> "0.1.0"],
                 capabilities |-> [tools |-> [available |-> TRUE],
                                   resources |-> [available |-> FALSE],
                                   resourceTemplates |-> [available |-> FALSE]]])

handle_notification(params) == Return(None)

handle_cancelled(params) == Return(None)

handle_list_resources(params) == Return([resources |-> <<>>])

handle_list_resource_templates(params) == Return([resourceTemplates |-> <<>>])

handle_list_tools(params) ==
    Return([tools |-> <<
        [name |-> "get_transcript",
         description |-> "Get transcript for a YouTube video",
         inputSchema |->
            [type |-> "object",
             properties |->
                [video_id |-> [type |-> "string"],
                 languages |-> [type |-> "array", items |-> [type |-> "string"]]],
             required |-> <<"video_id">>]] >>])

\* UnknownTool as it would be if the message left the name out.
UnknownToolUnnamed(tool_name) ==
    [error |-> [code |-> -32601, message |-> <<"Unknown tool">>]]

\* The error object handle_call_tool returns for an unknown tool name.
UnknownTool(tool_name) ==
    [error |-> [code |-> -32601,
                message |-> <<"Unknown tool: ">> \o PyStr(tool_name)]]

\* The error object of handle_call_tool's except clause.
TranscriptError(cause) ==
    [error |-> [code |-> -32000,
                message |-> <<"Error getting transcript: ">> \o cause]]

\* if languages: a non-empty list is the only true value among the ones
\* modelled.
Truthy(languages) == languages.t = "array" /\ languages.items # <<>>

\* ProviderCall as it would be if the languages were never passed on.
ProviderCallNoLanguages(video_id, languages) ==
    [video_id |-> video_id, given |-> FALSE, languages |-> <<>>]

\* The call of YouTubeTranscriptApi.get_transcript: with languages=..., or
\* with video_id alone.
ProviderCall(video_id, languages) ==
    IF Truthy(languages)
    THEN [video_id |-> video_id, given |-> TRUE, languages |-> languages.items]
    ELSE [video_id |-> video_id, given |-> FALSE, languages |-> <<>>]

\* handle_call_tool as it would be if it read video_id with args.get and
\* so passed None to the provider when the argument is missing.
handle_call_tool_get(params) ==
    IF params.t # "object"
    THEN Raise(NoAttributeGet(params.t))
    ELSE LET tool_name == PyGet(params.name) IN
         IF tool_name # Str(<<"get_transcript">>)
         THEN Return(UnknownTool(tool_name))
         ELSE LET args == PyGetArgs(params.arguments) IN
              IF args.t # "object"
              THEN Return(TranscriptError(NoAttributeGet(args.t)))
              ELSE Call(ProviderCall(PyGet(args.video_id), args.languages))

\* handle_call_tool as it would be without the test of the tool name.
handle_call_tool_any(params) ==
    IF params.t # "object"
    THEN Raise(NoAttributeGet(params.t))
    ELSE LET args == PyGetArgs(params.arguments) IN
         IF args.t # "object"
         THEN Return(TranscriptError(BadSubscript(args.t)))
         ELSE IF args.video_id.t = "absent"
         THEN Return(TranscriptError(KeyErrorVideoId))
         ELSE Call(ProviderCall(args.video_id, args.languages))

\* handle_call_tool up to the provider call.
handle_call_tool(params) ==
    IF params.t # "object"
    THEN Raise(NoAttributeGet(params.t))
    ELSE LET tool_name == PyGet(params.name) IN
         IF tool_name # Str(<<"get_transcript">>)
         THEN Return(UnknownTool(tool_name))
         ELSE LET args == PyGetArgs(params.arguments) IN
              IF args.t # "object"
              THEN Return(TranscriptError(BadSubscript(args.t)))
              ELSE IF args.video_id.t = "absent"
              THEN Return(TranscriptError(KeyErrorVideoId))
              ELSE Call(ProviderCall(args.video_id, args.languages))

\* '\n'.join(texts)
RECURSIVE Join(_)
Join(texts) ==
    IF texts = <<>> THEN <<>>
    ELSE IF Len(texts) = 1 THEN texts[1]
    ELSE texts[1] \o <<"\n">> \o Join(Tail(texts))

\* [entry['text'] for entry in transcript]
Texts(transcript) == [i \in 1..Len(transcript) |-> transcript[i].text]

\* FormatTranscript as it would be if every entry were ended, rather than
\* separated, by a newline.
FormatTranscriptLines(transcript) ==
    [content |-> << [type |-> "text",
                     text |-> Join(Texts(transcript) \o <<<<>>>>)] >>]

\* handle_call_tool after the provider returned a transcript.
FormatTranscript(transcript) ==
    [content |-> << [type |-> "text", text |-> Join(Texts(transcript))] >>]

\* handle_call_tool_resume as it would be without the except clause of
\* handle_call_tool.
handle_call_tool_resume_uncaught(answer) ==
    IF answer.ok
    THEN Return(FormatTranscript(answer.transcript))
    ELSE Raise(answer.cause)

\* handle_call_tool from the provider's answer on: answer.ok says whether
\* the provider returned answer.transcript or raised answer.cause.
handle_call_tool_resume(answer) ==
    IF answer.ok
    THEN Return(FormatTranscript(answer.transcript))
    ELSE Return(TranscriptError(answer.cause))

-----------------------------------------------------------------------------
(* handle_message.                                                         *)

\* self.handlers: method name -> handler.
handlers ==
    (Str(<<"initialize">>) :> "handle_initialize")
    @@ (Str(<<"tools/list">>) :> "handle_list_tools")
    @@ (Str(<<"tools/call">>) :> "handle_call_tool")
    @@ (Str(<<"resources/list">>) :> "handle_list_resources")
    @@ (Str(<<"resources/templates/list">>) :> "handle_list_resource_templates")
    @@ (Str(<<"notifications/initialized">>) :> "handle_notification")
    @@ (Str(<<"cancelled">>) :> "handle_cancelled")

\* self.handlers[method](params)
Invoke(handler, params) ==
    CASE handler = "handle_initialize" -> handle_initialize(params)
      [] handler = "handle_list_tools" -> handle_list_tools(params)
      [] handler = "handle_call_tool" -> handle_call_tool(params)
      [] handler = "handle_list_resources" -> handle_list_resources(params)
      [] handler = "handle_list_resource_templates" ->
             handle_list_resource_templates(params)
      [] handler = "handle_notification" -> handle_notification(params)
      [] handler = "handle_cancelled" -> handle_cancelled(params)

\* The three envelopes handle_message builds.
MethodNotFoundResponse(request, method) ==
    [jsonrpc |-> "2.0",
     id |-> PyGet(request.id),
     error |-> [code |-> -32601,
                message |-> <<"Unknown method: ">> \o PyStr(method)]]

\* ResultResponse as it would be if it did not echo the id.
ResultResponseNullId(request, result) ==
    [jsonrpc |-> "2.0", id |-> Null, result |-> result]

ResultResponse(request, result) ==
    [jsonrpc |-> "2.0", id |-> PyGet(request.id), result |-> result]

\* InternalErrorResponse as it would be if it carried a null result beside
\* the error.
InternalErrorResponseWithResult(request, msg) ==
    [jsonrpc |-> "2.0",
     id |-> PyGet(request.id),
     result |-> None,
     error |-> [code |-> -32603, message |-> msg]]

InternalErrorResponse(request, msg) ==
    [jsonrpc |-> "2.0",
     id |-> PyGet(request.id),
     error |-> [code |-> -32603, message |-> msg]]

\* What handling a message comes to: "print" (one response is written),
\* "silent" (handle_message returns having written nothing), "call" (it is
\* blocked in the provider) or "crash" (an exception leaves handle_message).
Printed(response) == [st |-> "print", out |-> <<response>>, call |-> <<>>]
Silent == [st |-> "silent", out |-> <<>>, call |-> <<>>]
Blocked(call) == [st |-> "call", out |-> <<>>, call |-> call]
Crashed == [st |-> "crash", out |-> <<>>, call |-> <<>>]

\* ExceptClause as it would be if handle_message let exceptions through.
ExceptClauseReraise(bound, request, msg) == Crashed

\* The except clause of handle_message: it reads request.get('id'), so it
\* raises in turn when request was never bound (json.loads raised) or is no
\* dict.
ExceptClause(bound, request, msg) ==
    IF bound /\ request.top = "object"
    THEN Printed(InternalErrorResponse(request, msg))
    ELSE Crashed

\* Respond as it would be without the test for None.
RespondNone(request, outcome) ==
    CASE outcome.st = "raise" -> ExceptClause(TRUE, request, outcome.msg)
      [] outcome.st = "call" -> Blocked(outcome.call)
      [] outcome.st = "return" ->
             Printed(ResultResponse(request, outcome.value))

\* handle_message from the handler's outcome on.
Respond(request, outcome) ==
    CASE outcome.st = "raise" -> ExceptClause(TRUE, request, outcome.msg)
      [] outcome.st = "call" -> Blocked(outcome.call)
      [] outcome.st = "return" ->
             IF IsNone(outcome.value)
             THEN Silent
             ELSE Printed(ResultResponse(request, outcome.value))

\* json.loads(message) raises on text that is no JSON text.
Parses(message) == message.text = "json"

handle_message(message) ==
    IF ~Parses(message)
    THEN ExceptClause(FALSE, message, <<"Expecting value">>)
    ELSE LET request == message IN
         IF request.top # "object"
         THEN ExceptClause(TRUE, request, NoAttributeGet(request.top))
         ELSE LET method == PyGet(request.method) IN
              IF ~Hashable(method)
              THEN ExceptClause(TRUE, request, Unhashable(method.t))
              ELSE IF method \notin DOMAIN handlers
              THEN Printed(MethodNotFoundResponse(request, method))
              ELSE Respond(request,
                           Invoke(handlers[method], PyGetParams(request.params)))

-----------------------------------------------------------------------------
(* The inputs: the lines a client may send and the answers the provider    *)
(* may give.                                                               *)

Ids == {Absent, Num(<<"7">>), Str(<<"a">>)}

Methods ==
    DOMAIN handlers \cup {Absent, Num(<<"5">>), Arr, Str(<<"f", "o", "o">>)}

ToolNames ==
    {Absent, Num(<<"5">>), Str(<<"get_transcript">>),
     Str(<<"n", "o", "p", "e">>)}

VideoIds == {Absent, Str(<<"v", "1">>)}

LanguageArgs ==
    {NoLangs, NullLangs, LangList(<<>>), LangList(<<"en">>),
     LangList(<<"de", "en">>)}

ArgumentsSet ==
    {NoArgs, NullArgs, ArrArgs}
    \cup {ArgsObj(vid, langs) : vid \in VideoIds, langs \in LanguageArgs}

InitializeParams ==
    {ParamsObj(Absent, pv, NoArgs) :
        pv \in {Null, DefaultProtocolVersion, Str(<<"2", "0", "2", "4">>)}}

CallParams ==
    {ParamsObj(name, Absent, args) : name \in ToolNames, args \in ArgumentsSet}

\* A call of get_transcript that reaches the provider.
SampleCall ==
    ParamsObj(Str(<<"get_transcript">>), Null,
              ArgsObj(Str(<<"v", "2">>), LangList(<<"en">>)))

\* The params tried with each method: everything for the two handlers that
\* read them, a sample for the others.
ParamsFor(method) ==
    {NoParams, NullParams, SampleCall}
    \cup CASE method = Str(<<"initialize">>) -> InitializeParams \cup {EmptyDict}
           [] method = Str(<<"tools/call">>) -> CallParams \cup {ArrParams}
           [] OTHER -> {}

\* Every method with every params under one id, and with every id under
\* two params.
Lines ==
    {RawLine("empty"), RawLine("spaces"), RawLine("malformed")}
    \cup {NonObject(top) : top \in {"array", "null"}}
    \cup UNION {{Request(method, Num(<<"7">>), params) :
                    params \in ParamsFor(method)} : method \in Methods}
    \cup {Request(method, id, params) :
            method \in Methods, id \in Ids, params \in {NoParams, SampleCall}}

EntryTexts == {<<>>, <<"a">>, <<"b", "\n", "c">>}
Entries == {[text |-> tx] : tx \in EntryTexts}
Transcripts == UNION {[1..n -> Entries] : n \in 0..MaxEntries}
Causes == {<<"n", "o">>, <<"4", "0", "4">>}

ProviderReturned(transcript) ==
    [ok |-> TRUE, transcript |-> transcript, cause |-> <<>>]
ProviderRaised(cause) == [ok |-> FALSE, transcript |-> <<>>, cause |-> cause]

-----------------------------------------------------------------------------
(* The transport loop.                                                     *)

VARIABLES
    pc,         \* "waiting": at the top of run's for loop; "fetching":
                \* blocked in the provider; "done": end of input;
                \* "crashed": an exception left run
    nread,      \* lines read so far
    line,       \* the line being handled, or handled last
    calls,      \* the provider calls made for it
    answer,     \* the provider's answers to them
    written,    \* the responses printed for it
    stdout      \* of every response printed so far: the line it answers,
                \* its id and which of result / error it carries

vars == <<pc, nread, line, calls, answer, written, stdout>>

NoLine == RawLine("none")

\* What print(json.dumps(response)) adds to standard output for line k.
Log(k, out) ==
    [i \in 1..Len(out) |->
        [line |-> k,
         id |-> out[i].id,
         member |-> IF "result" \in DOMAIN out[i] THEN "result" ELSE "error"]]

\* PcAfter as it would be if the provider call were started and not
\* awaited.
PcAfterAsync(step) == IF step.st = "crash" THEN "crashed" ELSE "waiting"

PcAfter(step) ==
    CASE step.st = "crash" -> "crashed"
      [] step.st = "call" -> "fetching"
      [] OTHER -> "waiting"

Init ==
    /\ pc = "waiting"
    /\ nread = 0
    /\ line = NoLine
    /\ calls = <<>>
    /\ answer = <<>>
    /\ written = <<>>
    /\ stdout = <<>>

\* One iteration of run's loop, up to the return of handle_message or to
\* the provider call it blocks in.
ReadLine(l) ==
    /\ pc = "waiting"
    /\ nread < MaxLines
    /\ LET step == handle_message(Strip(l)) IN
       /\ line' = l
       /\ nread' = nread + 1
       /\ calls' = step.call
       /\ answer' = <<>>
       /\ written' = step.out
       /\ stdout' = stdout \o Log(nread + 1, step.out)
       /\ pc' = PcAfter(step)

\* The provider answers; handle_call_tool and handle_message run to their
\* end.
ProviderAnswers(a) ==
    /\ pc = "fetching"
    /\ LET step == Respond(Strip(line), handle_call_tool_resume(a)) IN
       /\ answer' = <<a>>
       /\ written' = step.out
       /\ stdout' = stdout \o Log(nread, step.out)
       /\ pc' = PcAfter(step)
    /\ UNCHANGED <<nread, line, calls>>

ProviderReturns == \E transcript \in Transcripts :
    ProviderAnswers(ProviderReturned(transcript))

ProviderRaises == \E cause \in Causes : ProviderAnswers(ProviderRaised(cause))

\* sys.stdin is at its end: the for loop, run and main return.
EndOfInput ==
    /\ pc = "waiting"
    /\ pc' = "done"
    /\ UNCHANGED <<nread, line, calls, answer, written, stdout>>

run == \E l \in Lines : ReadLine(l)

Next == run \/ ProviderReturns \/ ProviderRaises \/ EndOfInput

Spec == Init /\ [][Next]_vars

-----------------------------------------------------------------------------
(* The claims.                                                             *)

\* The line read last is a JSON object.
IsObject == nread > 0 /\ line.text = "json" /\ line.top = "object"

\* The id a response to the line read last must carry.
EchoedId == IF line.id.t = "absent" THEN Null ELSE line.id

\* The method of the line read last is this name.
MethodIs(name) == IsObject /\ line.method = Str(<<name>>)

\* The responses standard output holds for the line read last.
LoggedForLine == {i \in DOMAIN stdout : stdout[i].line = nread}

\* Exactly one response was written for the line read last.
OneResponse == Len(written) = 1 /\ Cardinality(LoggedForLine) = 1

\* No response was written for the line read last.
NoResponse == written = <<>> /\ LoggedForLine = {}

\* The one response written is an RPC error of this code.
IsRpcError(code) ==
    /\ OneResponse
    /\ DOMAIN written[1] = {"jsonrpc", "id", "error"}
    /\ written[1].error.code = code

\* The one response written is a success envelope.
IsRpcResult ==
    /\ OneResponse
    /\ DOMAIN written[1] = {"jsonrpc", "id", "result"}

\* handle_message has returned for the line read last.
Returned == pc \in {"waiting", "done"}

\* C1: a line that does not parse as JSON gets exactly one response, an
\* error of code -32603 with id null, and the loop goes on reading.
C1_MalformedLineAnswered ==
    (nread > 0 /\ line.text = "malformed")
        => /\ Returned
           /\ IsRpcError(-32603)
           /\ written[1].id = Null

RespondingMethods ==
    {"initialize", "tools/list", "tools/call", "resources/list",
     "resources/templates/list"}

\* C2: a JSON object whose method is one of the five responding methods
\* gets exactly one response, carrying the request's id (null without
\* one), whether the handler returns or raises; until the provider has
\* answered, nothing is written.
C2_OneResponseEchoingId ==
    (\E m \in RespondingMethods : MethodIs(m))
        => /\ pc # "crashed"
           /\ pc = "fetching" => NoResponse
           /\ Returned => (OneResponse /\ written[1].id = EchoedId
                           /\ stdout[Len(stdout)].id = EchoedId)

\* A tools/call whose handler raised was answered once, under its id, and
\* a first line had been answered before it.
C2_Witness ==
    /\ MethodIs("tools/call")
    /\ nread = 2
    /\ line.id = Num(<<"7">>)
    /\ line.params.t = "null"
    /\ Returned
    /\ IsRpcError(-32603)
    /\ written[1].id = Num(<<"7">>)
    /\ Len(stdout) = 2

\* C3: notifications/initialized and cancelled get no response, whatever
\* their params and id; no response ever carries the handlers' "no
\* response" value as its result.
C3_NotificationsSilent ==
    /\ (MethodIs("notifications/initialized") \/ MethodIs("cancelled"))
           => (Returned /\ NoResponse)
    /\ \A i \in DOMAIN written :
           "result" \in DOMAIN written[i] => ~IsNone(written[i].result)

\* A cancelled carrying an id and null params was read second and left
\* standard output as the first line left it.
C3_Witness ==
    /\ MethodIs("cancelled")
    /\ nread = 2
    /\ line.id = Num(<<"7">>)
    /\ line.params.t = "null"
    /\ pc = "waiting"
    /\ written = <<>>
    /\ Len(stdout) = 1

HandlerNames ==
    RespondingMethods \cup {"notifications/initialized", "cancelled"}

\* C4: a JSON object whose method is none of the seven names of the
\* handler table gets exactly one response, an error of code -32601 under
\* the request's id, and no provider call.
C4_UnknownMethodNotFound ==
    (IsObject /\ ~\E m \in HandlerNames : MethodIs(m))
        => /\ Returned
           /\ IsRpcError(-32601)
           /\ written[1].id = EchoedId
           /\ calls = <<>>

\* C5: every response written has jsonrpc "2.0", an id, and exactly one
\* of result and error.
C5_EnvelopeShape ==
    /\ \A i \in DOMAIN written :
          /\ {"jsonrpc", "id"} \subseteq DOMAIN written[i]
          /\ written[i].jsonrpc = "2.0"
          /\ ("result" \in DOMAIN written[i]) # ("error" \in DOMAIN written[i])
    /\ Len(stdout) >= Len(written)

\* An error response was written after a result response.
C5_Witness ==
    /\ nread = 2
    /\ Len(stdout) = 2
    /\ stdout[1].member = "result"
    /\ Len(written) = 1
    /\ "error" \in DOMAIN written[1]
    /\ "result" \notin DOMAIN written[1]

\* The line read last is a tools/call with a params object (or none).
IsToolCall == MethodIs("tools/call") /\ line.params.t \in {"object", "absent"}

\* It names the tool get_transcript.
IsGetTranscript ==
    IsToolCall /\ line.params.name = Str(<<"get_transcript">>)

\* Its arguments hold a video_id.
HasVideoId ==
    /\ line.params.arguments.t = "object"
    /\ line.params.arguments.video_id.t # "absent"

\* Where entry i starts in the joined text, less one: the lengths of the
\* entries before it and one separator after each.
RECURSIVE Offset(_, _)
Offset(transcript, i) ==
    IF i = 1 THEN 0
    ELSE Offset(transcript, i - 1) + Len(transcript[i - 1].text) + 1

\* text is the entries' texts in order, one newline between neighbours.
IsJoinOf(text, transcript) ==
    LET n == Len(transcript) IN
    /\ Len(text) = IF n = 0 THEN 0 ELSE Offset(transcript, n) + Len(transcript[n].text)
    /\ \A i \in 1..n : \A k \in 1..Len(transcript[i].text) :
           text[Offset(transcript, i) + k] = transcript[i].text[k]
    /\ \A i \in 2..n : text[Offset(transcript, i)] = "\n"

\* C6: when the provider returns entries e1..en for a get_transcript call,
\* the response is a success envelope whose result is exactly one content
\* block of type "text", its text the entries' texts joined in order by
\* single newlines (the empty string for no entries).
C6_TranscriptJoined ==
    (IsGetTranscript /\ HasVideoId /\ answer # <<>> /\ answer[1].ok)
        => /\ Returned
           /\ IsRpcResult
           /\ written[1].id = EchoedId
           /\ DOMAIN written[1].result = {"content"}
           /\ Len(written[1].result.content) = 1
           /\ DOMAIN written[1].result.content[1] = {"type", "text"}
           /\ written[1].result.content[1].type = "text"
           /\ IsJoinOf(written[1].result.content[1].text, answer[1].transcript)

\* The provider returned the entries "a" and "b\nc", and "a\nb\nc" was
\* sent back.
C6_Witness ==
    /\ IsGetTranscript
    /\ answer # <<>>
    /\ answer[1].ok
    /\ answer[1].transcript = <<[text |-> <<"a">>], [text |-> <<"b", "\n", "c">>]>>
    /\ IsRpcResult
    /\ written[1].result.content[1].text = <<"a", "\n", "b", "\n", "c">>

\* The provider raised during the get_transcript call of the line read
\* last.
ProviderFailed ==
    IsGetTranscript /\ HasVideoId /\ answer # <<>> /\ ~answer[1].ok

\* C7 as stated: when the provider fails, the response's top-level error
\* has code -32000 and the response has no result.
C7_ProviderErrorIsRpcError == ProviderFailed => IsRpcError(-32000)

\* C7 as the code has it: when the provider fails, the error object
\* {code: -32000, message: "Error getting transcript: <cause>"} is the
\* error member of the response's result; the response has a top-level
\* result and no top-level error.
C7_ProviderErrorInResult ==
    ProviderFailed
        => /\ Returned
           /\ IsRpcResult
           /\ written[1].id = EchoedId
           /\ written[1].result =
                  [error |-> [code |-> -32000,
                              message |-> <<"Error getting transcript: ">>
                                          \o answer[1].cause]]

\* The provider raised "404" and the response carries it inside result.
C7_Witness ==
    /\ ProviderFailed
    /\ answer[1].cause = <<"4", "0", "4">>
    /\ IsRpcResult
    /\ written[1].result.error.message =
           <<"Error getting transcript: ", "4", "0", "4">>

\* C8: a get_transcript call whose arguments hold no video_id (or that has
\* no arguments) gets a response with result.error.code -32000, without
\* any provider call, and the loop goes on.
C8_MissingVideoId ==
    (IsGetTranscript /\ ~HasVideoId)
        => /\ Returned
           /\ calls = <<>>
           /\ IsRpcResult
           /\ DOMAIN written[1].result = {"error"}
           /\ written[1].result.error.code = -32000

\* A get_transcript call with languages but no video_id was answered with
\* -32000 after an earlier line, and the loop is ready for the next line.
C8_Witness ==
    /\ IsGetTranscript
    /\ nread = 2
    /\ line.params.arguments.t = "object"
    /\ line.params.arguments.video_id.t = "absent"
    /\ line.params.arguments.languages = LangList(<<"en">>)
    /\ pc = "waiting"
    /\ IsRpcResult
    /\ written[1].result.error.code = -32000

\* part occurs in text as a run of consecutive characters.
Contains(text, part) ==
    \E k \in 0..(Len(text) - Len(part)) :
        \A j \in 1..Len(part) : text[k + j] = part[j]

\* C9: a tools/call whose name is not get_transcript (or is absent) gets a
\* success-shaped response whose result.error has code -32601 and a
\* message containing the requested name; the provider is not called,
\* whatever the arguments.
C9_UnknownToolInResult ==
    (IsToolCall /\ line.params.name # Str(<<"get_transcript">>))
        => /\ Returned
           /\ calls = <<>>
           /\ IsRpcResult
           /\ written[1].id = EchoedId
           /\ DOMAIN written[1].result = {"error"}
           /\ written[1].result.error.code = -32601
           /\ line.params.name.t \in {"string", "number"}
                  => Contains(written[1].result.error.message, line.params.name.v)

\* The unknown tool "nope", called with a video_id and languages, was
\* answered by name without a provider call.
C9_Witness ==
    /\ IsToolCall
    /\ line.params.name = Str(<<"n", "o", "p", "e">>)
    /\ line.params.arguments.t = "object"
    /\ line.params.arguments.video_id.t = "string"
    /\ line.params.arguments.languages = LangList(<<"en">>)
    /\ calls = <<>>
    /\ IsRpcResult
    /\ written[1].result.error.message = <<"Unknown tool: ", "n", "o", "p", "e">>

\* C10: the result of initialize carries params.protocolVersion verbatim
\* when present and "0.1.0" when omitted; its serverInfo and capabilities
\* (tools available, resources and resourceTemplates not) are the same
\* for every input.
C10_InitializeResult ==
    (MethodIs("initialize") /\ line.params.t \in {"object", "absent"})
        => /\ Returned
           /\ IsRpcResult
           /\ DOMAIN written[1].result =
                  {"protocolVersion", "serverInfo", "capabilities"}
           /\ written[1].result.protocolVersion =
                  IF line.params.protocolVersion.t = "absent"
                  THEN Str(<<"0.1.0">>)
                  ELSE line.params.protocolVersion
           /\ written[1].result.serverInfo =
                  [name |-> "youtube-transcript-server", version |-> "0.1.0"]
           /\ written[1].result.capabilities =
                  [tools |-> [available |-> TRUE],
                   resources |-> [available |-> FALSE],
                   resourceTemplates |-> [available |-> FALSE]]

\* An initialize declaring version "2024" was answered with "2024".
C10_Witness ==
    /\ MethodIs("initialize")
    /\ line.params.protocolVersion = Str(<<"2", "0", "2", "4">>)
    /\ IsRpcResult
    /\ written[1].result.protocolVersion = Str(<<"2", "0", "2", "4">>)

\* C11: the loop stops only at the end of input: no input line (malformed,
\* empty, non-object JSON, unknown method, failing tool call) ends the
\* process before end of input is reached.
C11_StopsOnlyAtEndOfInput == pc # "crashed"

\* C12: a JSON object without an id gets no response, whatever its method.
C12_NoIdNoResponse ==
    (IsObject /\ line.id.t = "absent") => NoResponse

\* C13: an empty or whitespace-only line gets no response and no handler
\* or provider call, and the loop goes on to the next line.
C13_BlankLineSkipped ==
    (nread > 0 /\ line.text \in {"empty", "spaces"})
        => /\ Returned
           /\ NoResponse
           /\ calls = <<>>

\* C14: lines are handled one after the other.  Standard output only
\* grows, by responses to the line being handled; a line is read only
\* when handle_message has returned for the line before, every provider
\* call made for it having been answered; so the responses stand in the
\* order of their requests and no later line changes an earlier response.
C14_Sequential ==
    [][/\ Len(stdout') >= Len(stdout)
       /\ SubSeq(stdout', 1, Len(stdout)) = stdout
       /\ \A i \in (Len(stdout) + 1)..Len(stdout') : stdout'[i].line = nread'
       /\ \A i \in 1..Len(stdout) : stdout[i].line <= nread
       /\ nread' # nread
              => /\ nread' = nread + 1
                 /\ pc = "waiting"
                 /\ Len(answer) = Len(calls)
                 /\ \A i \in 1..Len(stdout') : stdout'[i].line = nread'
                        => i > Len(stdout)]_vars

\* The second line's provider call was answered and its response written
\* after the response to the first line.
C14_Witness ==
    /\ nread = 2
    /\ calls # <<>>
    /\ answer # <<>>
    /\ pc = "waiting"
    /\ Len(stdout) = 2
    /\ stdout[1].line = 1
    /\ stdout[2].line = 2

\* C15: when the handler of a recognized method raises (initialize or
\* tools/call given params that are null or no mapping), exactly one
\* response is written, an error of code -32603 under the request's id,
\* the process goes on and is ready for the next line.
C15_HandlerRaises ==
    ((MethodIs("initialize") \/ MethodIs("tools/call"))
     /\ line.params.t \notin {"object", "absent"})
        => /\ Returned
           /\ IsRpcError(-32603)
           /\ written[1].id = EchoedId
           /\ calls = <<>>

\* An initialize with null params, read after another line, was answered
\* with -32603 under its id and the loop waits for the next line.
C15_Witness ==
    /\ MethodIs("initialize")
    /\ nread = 2
    /\ line.params.t = "null"
    /\ line.id = Num(<<"7">>)
    /\ pc = "waiting"
    /\ IsRpcError(-32603)
    /\ written[1].id = Num(<<"7">>)

\* Reading line l next writes exactly the responses out, with no provider
\* call pending.
ReadsAndWrites(l, out) == ReadLine(l) /\ written' = out /\ pc' # "fetching"

\* What a server that has read nothing writes for line l (for the lines
\* that need no provider call).
FreshResponse(l) == handle_message(Strip(l)).out

\* C16: whatever lines came before, a line that is sent next is answered
\* as it would be were it the first line.
C16_SameResponseAfterAnyPrefix ==
    (nread < MaxLines /\ pc \notin {"done", "fetching"})
        => \A l \in Lines :
               handle_message(Strip(l)).st \in {"print", "silent"}
                   => ENABLED ReadsAndWrites(l, FreshResponse(l))

\* The languages argument of the line read last.
LanguagesArg == line.params.arguments.languages

\* C17 as stated: the provider gets the caller's languages, in order,
\* whenever the arguments hold a languages field (an empty one included),
\* and video_id alone only when they hold none.
C17_LanguagesWheneverPresent ==
    (IsGetTranscript /\ HasVideoId)
        => /\ Len(calls) = 1
           /\ calls[1].video_id = line.params.arguments.video_id
           /\ LanguagesArg.t = "array"
                  => (calls[1].given /\ calls[1].languages = LanguagesArg.items)
           /\ LanguagesArg.t = "absent" => ~calls[1].given

\* C17 as the code has it: the provider gets the caller's languages, in
\* order, whenever the arguments hold a non-empty languages sequence, and
\* video_id alone when languages is absent, null or the empty sequence.
C17_LanguagesWhenNonEmpty ==
    (IsGetTranscript /\ HasVideoId)
        => /\ Len(calls) = 1
           /\ calls[1].video_id = line.params.arguments.video_id
           /\ calls[1].given =
                  (LanguagesArg.t = "array" /\ Len(LanguagesArg.items) > 0)
           /\ calls[1].given => calls[1].languages = LanguagesArg.items
           /\ ~calls[1].given => calls[1].languages = <<>>

\* The provider was called with the languages "de", "en" in that order.
C17_Witness ==
    /\ IsGetTranscript
    /\ HasVideoId
    /\ LanguagesArg = LangList(<<"de", "en">>)
    /\ Len(calls) = 1
    /\ calls[1].given
    /\ calls[1].languages = <<"de", "en">>

\* C18: the provider is called at most once for a line, and only for a
\* tools/call naming get_transcript whose arguments hold a video_id.
C18_ProviderOnlyForGetTranscript ==
    /\ Len(calls) <= 1
    /\ Len(answer) <= Len(calls)
    /\ calls # <<>>
           => /\ MethodIs("tools/call")
              /\ line.params.t = "object"
              /\ line.params.name = Str(<<"get_transcript">>)
              /\ HasVideoId
    /\ pc = "fetching" => calls # <<>>

\* The provider was called once for the second line and has not answered.
C18_Witness ==
    /\ nread = 2
    /\ pc = "fetching"
    /\ Len(calls) = 1
    /\ answer = <<>>
    /\ IsGetTranscript

\* C19: a line that is valid JSON but no object gets exactly one response,
\* an error of code -32603 with id null, and the loop goes on.
C19_NonObjectAnswered ==
    (nread > 0 /\ line.text = "json" /\ line.top # "object")
        => /\ Returned
           /\ IsRpcError(-32603)
           /\ written[1].id = Null

====
